---------------------------- MODULE Spec2Model ----------------------------
(***************************************************************************)
(* Model of cdetect.py: detection of cyclic #include dependencies among    *)
(* the .h/.hpp files of one directory.                                     *)
(*                                                                         *)
(* A Python str is modelled as a sequence of one-character strings, so     *)
(* that the three regular expressions of the program (commentRE,           *)
(* includeRE, filenameRE) are computed character by character.  A Node     *)
(* object is modelled by its position in Node.nodes (nodes are appended    *)
(* and never removed, so a position is a stable object reference).         *)
(***************************************************************************)
EXTENDS Integers, Sequences, FiniteSets, TLC

(***************************************************************************)
(* Bounds of the model.                                                    *)
(***************************************************************************)
\* the largest number of text pieces one header file is made of
MaxPieces == 2
\* the largest number of include edges of the whole graph
MaxEdges == 4

(***************************************************************************)
(* Small helpers on sequences and sets.                                    *)
(***************************************************************************)
SetMin(S) == CHOOSE x \in S : \A y \in S : x <= y

Range(s) == {s[i] : i \in 1..Len(s)}

RECURSIVE Flatten(_)
Flatten(ss) == IF ss = <<>> THEN <<>> ELSE Head(ss) \o Flatten(Tail(ss))

\* s has the characters of w at positions pos, pos+1, ...
StartsWithAt(s, pos, w) ==
    /\ pos + Len(w) - 1 <= Len(s)
    /\ \A i \in 1..Len(w) : s[pos + i - 1] = w[i]

\* str.endswith
EndsWith(s, w) ==
    /\ Len(w) <= Len(s)
    /\ \A i \in 1..Len(w) : s[Len(s) - Len(w) + i] = w[i]

\* the first position from `from` on where s has the characters of w, or 0
RECURSIVE Find(_, _, _)
Find(s, from, w) ==
    IF from > Len(s)
    THEN 0
    ELSE IF StartsWithAt(s, from, w) THEN from ELSE Find(s, from + 1, w)

\* the last position of from..to where s has the character c, or 0
RECURSIVE FindLast(_, _, _, _)
FindLast(s, from, to, c) ==
    IF to < from
    THEN 0
    ELSE IF s[to] = c THEN to ELSE FindLast(s, from, to - 1, c)

(***************************************************************************)
(* commentRE = (/\*(?:.|[\r\n])*?\*/)|(//.*[\r\n])                         *)
(* The position of the last character of the match that starts at pos, or  *)
(* 0 when the alternative does not match there.                            *)
(***************************************************************************)
\* first alternative: "/*", the shortest run of any characters, "*/"
BlockCommentEnd(s, pos) ==
    IF StartsWithAt(s, pos, <<"/", "*">>)
    THEN LET close == Find(s, pos + 2, <<"*", "/">>)
         IN  IF close = 0 THEN 0 ELSE close + 1
    ELSE 0

\* second alternative: "//", the longest run of characters other than "\n",
\* then one "\r" or "\n": the "\n" that ends the line, or, when the text
\* ends first, the last "\r" the run gives back
LineCommentEnd(s, pos) ==
    IF StartsWithAt(s, pos, <<"/", "/">>)
    THEN LET nl == Find(s, pos + 2, <<"\n">>)
         IN  IF nl # 0 THEN nl ELSE FindLast(s, pos + 2, Len(s), "\r")
    ELSE 0

commentRE(s, pos) ==
    IF BlockCommentEnd(s, pos) > 0
    THEN BlockCommentEnd(s, pos)
    ELSE LineCommentEnd(s, pos)

\* re.sub(commentRE, "", input): the matches, leftmost first, are removed
RECURSIVE StripFrom(_, _)
StripFrom(s, pos) ==
    IF pos > Len(s)
    THEN <<>>
    ELSE LET e == commentRE(s, pos)
         IN  IF e > 0
             THEN StripFrom(s, e + 1)
             ELSE <<s[pos]>> \o StripFrom(s, pos + 1)

stripComments(s) == StripFrom(s, 1)

(***************************************************************************)
(* includeRE = #include \".*\"                                             *)
(***************************************************************************)
IncludePrefix == <<"#", "i", "n", "c", "l", "u", "d", "e", " ", "\"">>

\* the last character of the match of includeRE that starts at pos, or 0:
\* the prefix, the longest run of characters other than "\n", then a quote
includeRE(s, pos) ==
    IF StartsWithAt(s, pos, IncludePrefix)
    THEN LET from == pos + Len(IncludePrefix)
             nl == Find(s, from, <<"\n">>)
             lineEnd == IF nl = 0 THEN Len(s) ELSE nl - 1
         IN  FindLast(s, from, lineEnd, "\"")
    ELSE 0

\* re.findall(includeRE, s): the non-overlapping matches, leftmost first
RECURSIVE FindallFrom(_, _)
FindallFrom(s, pos) ==
    IF pos > Len(s)
    THEN <<>>
    ELSE LET e == includeRE(s, pos)
         IN  IF e > 0
             THEN <<SubSeq(s, pos, e)>> \o FindallFrom(s, e + 1)
             ELSE FindallFrom(s, pos + 1)

findallIncludes(s) == FindallFrom(s, 1)

(***************************************************************************)
(* filenameRE = [a-zA-z]*\.(hpp|h)                                         *)
(***************************************************************************)
\* the class [a-zA-z]: a-z, and every character from "A" to "z", which
\* takes in A-Z and the six characters between "Z" and "a" (the last of
\* them, the grave accent, cannot stand in a TLA+ string and is written
\* "GRAVE")
NameChars ==
    {"a", "b", "c", "d", "e", "f", "g", "h", "i", "j", "k", "l", "m",
     "n", "o", "p", "q", "r", "s", "t", "u", "v", "w", "x", "y", "z",
     "A", "B", "C", "D", "E", "F", "G", "H", "I", "J", "K", "L", "M",
     "N", "O", "P", "Q", "R", "S", "T", "U", "V", "W", "X", "Y", "Z",
     "[", "\\", "]", "^", "_", "GRAVE"}

\* the first position from pos on that holds no character of the class
RECURSIVE RunEnd(_, _)
RunEnd(s, pos) ==
    IF pos > Len(s) \/ s[pos] \notin NameChars THEN pos ELSE RunEnd(s, pos + 1)

\* the last character of the match of filenameRE that starts at pos, or 0.
\* The run of class characters is the longest one: a shorter run is
\* followed by a class character, never by the dot.
filenameRE(s, pos) ==
    LET dot == RunEnd(s, pos)
    IN  IF StartsWithAt(s, dot, <<".", "h", "p", "p">>)
        THEN dot + 3
        ELSE IF StartsWithAt(s, dot, <<".", "h">>) THEN dot + 1 ELSE 0

\* re.search(filenameRE, inc): the leftmost match, or None
None == [matched |-> FALSE, group |-> <<>>]

RECURSIVE SearchFrom(_, _)
SearchFrom(inc, pos) ==
    IF pos > Len(inc)
    THEN None
    ELSE IF filenameRE(inc, pos) > 0
         THEN [matched |-> TRUE, group |-> SubSeq(inc, pos, filenameRE(inc, pos))]
         ELSE SearchFrom(inc, pos + 1)

searchFilename(inc) == SearchFrom(inc, 1)

(***************************************************************************)
(* The inputs of a run: the names, the directory, the header texts.        *)
(***************************************************************************)
A_H == <<"a", ".", "h">>

B_H == <<"b", ".", "h">>

C_HPP == <<"c", ".", "h", "p", "p">>

\* a directory entry that is no header
M_C == <<"m", ".", "c">>

\* the header names of the model
Names == {A_H, B_H, C_HPP}

\* os.listdir: the entries of the directory, in an arbitrary order
DirListings ==
    {d \in UNION {[1..n -> Names \cup {M_C}] : n \in 0..(Cardinality(Names) + 1)} :
        \A i, j \in 1..Len(d) : i # j => d[i] # d[j]}

NL == <<"\n">>

\* the text of a local include directive
Directive(n) == IncludePrefix \o n \o <<"\"">>

\* a line comment that holds a directive, without its end of line
LineCommented == <<"/", "/", " ">> \o Directive(A_H)

\* a block comment over several lines that holds a directive
BlockCommented ==
    <<"/", "*">> \o NL \o Directive(B_H) \o NL \o <<"*", "/">> \o NL

\* a directive whose quoted text holds no filename token
NoToken == IncludePrefix \o <<"x", "\"">> \o NL

\* a system include
AngleInclude == <<"#", "i", "n", "c", "l", "u", "d", "e", " ", "<">> \o A_H \o <<">">> \o NL

\* the pieces a header text is made of
Pieces ==
    {Directive(n) \o NL : n \in Names}
        \cup {LineCommented, LineCommented \o NL, BlockCommented,
              NoToken, AngleInclude}

\* the header texts of the model: up to MaxPieces pieces, one after another
Texts == {Flatten(ps) : ps \in UNION {[1..k -> Pieces] : k \in 0..MaxPieces}}

\* the header texts of a directory that is read twice: up to MaxPieces
\* directives, nothing else
DirTexts ==
    {Flatten(ps) : ps \in UNION {[1..k -> {Directive(n) \o NL : n \in Names}] :
                                     k \in 0..MaxPieces}}

\* re.findall(includeRE, stripComments(input.read())) of a text
includesOf(t) == findallIncludes(stripComments(t))

\* re.search(filenameRE, inc) of every directive found in a text
matchesOf(t) ==
    LET incs == includesOf(t)
    IN  [i \in 1..Len(incs) |-> searchFilename(incs[i])]

\* matchesOf of every text of the model, each computed once
MatchTable == {<<t, matchesOf(t)>> : t \in Texts}

MatchesOf(t) == (CHOOSE p \in MatchTable : p[1] = t)[2]

(***************************************************************************)
(* class Node                                                              *)
(***************************************************************************)
\* Node.__init__
Node(n) == [name |-> n, links |-> <<>>, index |-> -1, lowlink |-> 0]

\* inNodes that finds no node
inNodesNever(ns, n) == 0

\* Node.inNodes: the first node of Node.nodes named n, or False (0)
inNodes(ns, n) ==
    LET K == {k \in 1..Len(ns) : ns[k].name = n}
    IN  IF K = {} THEN 0 ELSE SetMin(K)

\* addLink with the link also recorded on the included header's node
addLinkBothWays(ns, self, n) ==
    LET test == inNodes(ns, n)
    IN  IF test # 0
        THEN [ns EXCEPT ![self].links = Append(@, test),
                        ![test].links = Append(@, self)]
        ELSE LET ns1 == Append(ns, Node(n))
             IN  [ns1 EXCEPT ![self].links = Append(@, Len(ns1)),
                             ![Len(ns1)].links = Append(@, self)]

\* Node.addLink of node self: Node.nodes afterwards
addLink(ns, self, n) ==
    LET test == inNodes(ns, n)
    IN  IF test # 0
        THEN [ns EXCEPT ![self].links = Append(@, test)]
        ELSE LET ns1 == Append(ns, Node(n))
             IN  [ns1 EXCEPT ![self].links = Append(@, Len(ns1))]

\* isValidFile
isValidFile(file) ==
    EndsWith(file, <<".", "h">>) \/ EndsWith(file, <<".", "h", "p", "p">>)

\* the loop over the directives of one file in constructGraph: a directive
\* in which re.search finds nothing makes .group() raise AttributeError
RECURSIVE addLinks(_, _, _)
addLinks(ns, self, matches) ==
    IF matches = <<>>
    THEN [nodes |-> ns, raised |-> FALSE]
    ELSE IF ~Head(matches).matched
         THEN [nodes |-> ns, raised |-> TRUE]
         ELSE addLinks(addLink(ns, self, Head(matches).group), self, Tail(matches))

\* the body of the loop of constructGraph for one file, given what
\* re.search finds in each of its directives
scanMatches(ns, filename, matches) ==
    LET node == inNodes(ns, filename)
        ns1 == IF node = 0 THEN Append(ns, Node(filename)) ELSE ns
        self == IF node = 0 THEN Len(ns1) ELSE node
    IN  addLinks(ns1, self, matches)

\* the body of the loop of constructGraph for one file and its text
scanFile(ns, filename, t) == scanMatches(ns, filename, MatchesOf(t))

RECURSIVE SumLinks(_)
SumLinks(ns) == IF ns = <<>> THEN 0 ELSE Len(Head(ns).links) + SumLinks(Tail(ns))

(***************************************************************************)
(* What the program prints: a line is the sequence of its characters.      *)
(***************************************************************************)
CycleHeader ==
    <<"C", "y", "c", "l", "i", "c", " ", "d", "e", "p", "e", "n", "d",
    "e", "n", "c", "y", " ", "d", "e", "t", "e", "c", "t", "e", "d", ":">>

NoCycles ==
    <<"N", "o", " ", "c", "y", "c", "l", "i", "c", " ", "d", "e", "p",
    "e", "n", "d", "e", "n", "c", "i", "e", "s", " ", "d", "e", "t", "e",
    "c", "t", "e", "d", ".">>

Arrow == <<" ", "<", "-">>

\* print "%s <-" % node.name, for every node of the cycle, then
\* print cycle[0].name: the prints of one line are joined by one space
RECURSIVE chainItems(_, _)
chainItems(ns, cycle) ==
    IF cycle = <<>>
    THEN <<>>
    ELSE ns[Head(cycle)].name \o Arrow \o <<" ">> \o chainItems(ns, Tail(cycle))

\* chainLine closed with the name of the node popped last
chainLineClosedByLast(ns, cycle) ==
    chainItems(ns, cycle) \o ns[cycle[Len(cycle)]].name

chainLine(ns, cycle) == chainItems(ns, cycle) \o ns[cycle[1]].name

\* isCycle with the test len(cycle) > 0
isCycleNonEmpty(cycle) == Len(cycle) > 0

\* if len(cycle) > 1
isCycle(cycle) == Len(cycle) > 1

\* cycleLines without the line that announces the cycle
cycleLinesChainOnly(ns, cycle) == <<chainLine(ns, cycle)>>

\* the lines tarjan prints for a popped component
cycleLines(ns, cycle) == <<CycleHeader, chainLine(ns, cycle)>>

\* cycle.append(Node.nodeStack.pop()) until cycle[-1] is n; list.pop of an
\* empty list raises IndexError
RECURSIVE popCycle(_, _, _)
popCycle(stack, cycle, n) ==
    IF stack = <<>>
    THEN [stack |-> stack, cycle |-> cycle, raised |-> TRUE]
    ELSE LET top == stack[Len(stack)]
             rest == SubSeq(stack, 1, Len(stack) - 1)
         IN  IF top = n
             THEN [stack |-> rest, cycle |-> Append(cycle, top), raised |-> FALSE]
             ELSE popCycle(rest, Append(cycle, top), n)

\* onStack that holds of every child
onStackAlways(stack, child) == TRUE

\* child in Node.nodeStack
onStack(stack, child) == child \in Range(stack)

\* min that returns its second argument: the lowlink is overwritten
minOverwrite(a, b) == b

\* min
min(a, b) == IF a <= b THEN a ELSE b

(***************************************************************************)
(* The state of a run.                                                     *)
(***************************************************************************)
VARIABLES
    pc,             \* where the run is: "constructGraph", "main_loop",
                    \* "tarjan", "done", "raised" (an uncaught AttributeError
                    \* or IndexError) or "IOError" (an uncaught IOError)
    listing,        \* filter(isValidFile, os.listdir(...)) of constructGraph
    fileIdx,        \* the position of constructGraph's loop in listing
    text,           \* the text input.read() returned in the last pass of
                    \* constructGraph's loop, for the runs that record it
    nodes,          \* Node.nodes
    nodeStack,      \* Node.nodeStack
    indexCount,     \* Node.indexCount
    cyclesDetected, \* the global cyclesDetected
    rootIdx,        \* the position of main's loop in Node.nodes
    callStack,      \* the active calls of tarjan: the node n and the
                    \* position of the loop over n.links
    stdout,         \* the lines printed so far
    unreadable,     \* the positions of listing whose file cannot be read
    handles,        \* the names of the files whose file object is open
    dir,            \* the text of every file of listing, for the runs over
                    \* a directory that is read twice
    run,            \* 1 in the first run over the directory, 2 in the second
    firstOut        \* what the first run printed

vars ==
    <<pc, listing, fileIdx, text, nodes, nodeStack, indexCount,
      cyclesDetected, rootIdx, callStack, stdout, unreadable, handles, dir,
      run, firstOut>>

\* the directory: it does not change while the program runs
directory == <<listing, unreadable, dir>>

\* the record of the first run over the directory
runs == <<run, firstOut>>

\* the state of the program when main calls constructGraph for the first
\* time in a process
processStart ==
    /\ pc = "constructGraph"
    /\ fileIdx = 1
    /\ text = <<>>
    /\ nodes = <<>>
    /\ nodeStack = <<>>
    /\ indexCount = 0
    /\ cyclesDetected = FALSE
    /\ rootIdx = 1
    /\ callStack = <<>>
    /\ stdout = <<>>
    /\ handles = {}

\* at most one file of the directory cannot be read
someUnreadable == {{}} \cup {{i} : i \in 1..Len(listing)}

Init ==
    /\ processStart
    /\ \E d \in DirListings : listing = SelectSeq(d, isValidFile)
    /\ unreadable \in someUnreadable
    /\ dir = <<>>
    /\ run = 1
    /\ firstOut = <<>>

(***************************************************************************)
(* constructGraph                                                          *)
(***************************************************************************)
\* one pass of the loop over the header files: the file is read and its
\* directives become links; an exception ends the run.  The text read is
\* recorded when record is TRUE.
\* input = open(filename): the name input is bound to the new file object,
\* and the file object it was bound to, which nothing else refers to, is
\* closed by the interpreter (CPython frees an object when its last
\* reference goes)
rebound(filename) == {filename}

\* the pass over the file at fileIdx, whose text is t
scanned(t, record) ==
    LET r == scanFile(nodes, listing[fileIdx], t)
    IN  /\ text' = IF record THEN t ELSE <<>>
        /\ nodes' = r.nodes
        /\ pc' = IF r.raised THEN "raised" ELSE pc
        /\ fileIdx' = IF r.raised THEN fileIdx ELSE fileIdx + 1
        /\ handles' = rebound(listing[fileIdx])

scanPass(record) ==
    /\ pc = "constructGraph"
    /\ fileIdx <= Len(listing)
    /\ fileIdx \notin unreadable
    /\ \E t \in Texts :
          /\ SumLinks(scanFile(nodes, listing[fileIdx], t).nodes) <= MaxEdges
          /\ scanned(t, record)
    /\ UNCHANGED <<nodeStack, indexCount, cyclesDetected, rootIdx,
                   callStack, stdout, directory, runs>>

ScanFile == scanPass(FALSE)

ScanFileText == scanPass(TRUE)

\* the directives of a file taken in any order
inAnyOrder(matches) ==
    LET n == Len(matches)
        perms == {f \in [1..n -> 1..n] : \A i, j \in 1..n : f[i] = f[j] => i = j}
    IN  {[i \in 1..n |-> matches[f[i]]] : f \in perms}

\* for inc in re.findall(...): the loop takes the directives in the order
\* of the list findall returns, which is their order in the text
inFindallOrder(matches) == {matches}

\* the pass over the file at fileIdx of a directory whose texts are dir
ScanDirFile ==
    /\ pc = "constructGraph"
    /\ fileIdx <= Len(listing)
    /\ fileIdx \notin unreadable
    /\ \E ms \in inFindallOrder(MatchesOf(dir[fileIdx])) :
          LET r == scanMatches(nodes, listing[fileIdx], ms)
          IN  /\ nodes' = r.nodes
              /\ pc' = IF r.raised THEN "raised" ELSE pc
              /\ fileIdx' = IF r.raised THEN fileIdx ELSE fileIdx + 1
              /\ handles' = rebound(listing[fileIdx])
    /\ UNCHANGED <<text, nodeStack, indexCount, cyclesDetected, rootIdx,
                   callStack, stdout, directory, runs>>

\* an IOError handled by going on with the next file
ioErrorSkipped(atRead) ==
    /\ pc' = pc
    /\ fileIdx' = fileIdx + 1
    /\ nodes' = nodes
    /\ handles' = handles

\* open(filename) or, when atRead, input.read() raises IOError: nothing
\* catches it, in constructGraph or in main.  input.read() is called after
\* the file's node is looked up and, if new, appended to Node.nodes
ioError(atRead) ==
    /\ pc' = "IOError"
    /\ fileIdx' = fileIdx
    /\ nodes' = IF atRead /\ inNodes(nodes, listing[fileIdx]) = 0
                THEN Append(nodes, Node(listing[fileIdx]))
                ELSE nodes
    /\ handles' = IF atRead THEN rebound(listing[fileIdx]) ELSE handles

\* the pass of the loop over a file that cannot be opened or read
ReadFails ==
    /\ pc = "constructGraph"
    /\ fileIdx <= Len(listing)
    /\ fileIdx \in unreadable
    /\ \E atRead \in BOOLEAN : ioError(atRead)
    /\ UNCHANGED <<text, nodeStack, indexCount, cyclesDetected, rootIdx,
                   callStack, stdout, directory, runs>>

\* the loop is over: constructGraph returns to main, and its local name
\* input goes, with the last reference to the file object it was bound to
ConstructGraphReturn ==
    /\ pc = "constructGraph"
    /\ fileIdx > Len(listing)
    /\ pc' = "main_loop"
    /\ text' = <<>>
    /\ handles' = {}
    /\ UNCHANGED <<fileIdx, nodes, nodeStack, indexCount,
                   cyclesDetected, rootIdx, callStack, stdout, directory, runs>>

(***************************************************************************)
(* tarjan                                                                  *)
(***************************************************************************)
\* tarjanEnter without Node.nodeStack.append(n)
tarjanEnterNoPush(n) ==
    /\ nodes' = [nodes EXCEPT ![n].index = indexCount, ![n].lowlink = indexCount]
    /\ indexCount' = indexCount + 1
    /\ nodeStack' = nodeStack
    /\ callStack' = Append(callStack, [n |-> n, child |-> 1])

\* the first four statements of tarjan(n), and the start of its loop
tarjanEnter(n) ==
    /\ nodes' = [nodes EXCEPT ![n].index = indexCount, ![n].lowlink = indexCount]
    /\ indexCount' = indexCount + 1
    /\ nodeStack' = Append(nodeStack, n)
    /\ callStack' = Append(callStack, [n |-> n, child |-> 1])

\* main: for node in Node.nodes: tarjan(node)
MainCallTarjan ==
    /\ pc = "main_loop"
    /\ rootIdx <= Len(nodes)
    /\ tarjanEnter(rootIdx)
    /\ pc' = "tarjan"
    /\ UNCHANGED <<fileIdx, text, cyclesDetected, rootIdx, stdout, handles,
                   directory, runs>>

\* the call on top of the call stack
frame == callStack[Len(callStack)]

\* the child the loop of the top call is at
child == nodes[frame.n].links[frame.child]

inLoop ==
    /\ pc = "tarjan"
    /\ frame.child <= Len(nodes[frame.n].links)

\* nextChild that goes back to the first child after the second
nextChildWrapped ==
    [callStack EXCEPT ![Len(callStack)].child = IF @ >= 2 THEN 1 ELSE @ + 1]

\* the loop of the top call goes on to the next child
nextChild == [callStack EXCEPT ![Len(callStack)].child = @ + 1]

\* if child.index == -1: tarjan(child)
TarjanRecurse ==
    /\ inLoop
    /\ nodes[child].index = -1
    /\ tarjanEnter(child)
    /\ UNCHANGED <<pc, fileIdx, text, cyclesDetected, rootIdx, stdout, handles,
                   directory, runs>>

\* elif child in Node.nodeStack: n.lowlink = min(n.lowlink, child.index)
TarjanBackEdge ==
    /\ inLoop
    /\ nodes[child].index # -1
    /\ onStack(nodeStack, child)
    /\ nodes' = [nodes EXCEPT ![frame.n].lowlink = min(@, nodes[child].index)]
    /\ callStack' = nextChild
    /\ UNCHANGED <<pc, fileIdx, text, nodeStack, indexCount,
                   cyclesDetected, rootIdx, stdout, handles, directory, runs>>

\* neither: the child is left alone
TarjanSkip ==
    /\ inLoop
    /\ nodes[child].index # -1
    /\ ~onStack(nodeStack, child)
    /\ callStack' = nextChild
    /\ UNCHANGED <<pc, fileIdx, text, nodes, nodeStack, indexCount,
                   cyclesDetected, rootIdx, stdout, handles, directory, runs>>

\* if n.lowlink == n.index
isRoot(node) == node.lowlink = node.index

\* the loop of the top call is over: the component is popped and printed
\* when n is its root, and the call returns, to the caller's
\* n.lowlink = min(n.lowlink, child.lowlink) or to main's loop
TarjanReturn ==
    /\ pc = "tarjan"
    /\ frame.child > Len(nodes[frame.n].links)
    /\ LET n == frame.n
           root == isRoot(nodes[n])
           p == IF root
                THEN popCycle(nodeStack, <<>>, n)
                ELSE [stack |-> nodeStack, cycle |-> <<>>, raised |-> FALSE]
           printed == root /\ ~p.raised /\ isCycle(p.cycle)
           callers == SubSeq(callStack, 1, Len(callStack) - 1)
       IN  /\ nodeStack' = p.stack
           /\ stdout' = IF printed THEN stdout \o cycleLines(nodes, p.cycle) ELSE stdout
           /\ cyclesDetected' = IF printed THEN TRUE ELSE cyclesDetected
           /\ IF p.raised
              THEN /\ pc' = "raised"
                   /\ UNCHANGED <<nodes, callStack, rootIdx>>
              ELSE IF callers = <<>>
              THEN /\ pc' = "main_loop"
                   /\ rootIdx' = rootIdx + 1
                   /\ callStack' = callers
                   /\ UNCHANGED nodes
              ELSE /\ nodes' = [nodes EXCEPT ![callers[Len(callers)].n].lowlink =
                                                min(@, nodes[n].lowlink)]
                   /\ callStack' = [callers EXCEPT ![Len(callers)].child = @ + 1]
                   /\ UNCHANGED <<pc, rootIdx>>
    /\ UNCHANGED <<fileIdx, text, indexCount, handles, directory, runs>>

(***************************************************************************)
(* main, after its loop                                                    *)
(***************************************************************************)
\* summaryLines with the test on cyclesDetected left out
summaryAlways(detected) == <<NoCycles>>

\* if not cyclesDetected: print "No cyclic dependencies detected."
summaryLines(detected) == IF ~detected THEN <<NoCycles>> ELSE <<>>

MainFinish ==
    /\ pc = "main_loop"
    /\ rootIdx > Len(nodes)
    /\ stdout' = stdout \o summaryLines(cyclesDetected)
    /\ pc' = "done"
    /\ UNCHANGED <<fileIdx, text, nodes, nodeStack, indexCount,
                   cyclesDetected, rootIdx, callStack, handles, directory, runs>>

Next ==
    \/ ScanFile
    \/ ReadFails
    \/ ConstructGraphReturn
    \/ MainCallTarjan
    \/ TarjanRecurse
    \/ TarjanBackEdge
    \/ TarjanSkip
    \/ TarjanReturn
    \/ MainFinish

Spec == Init /\ [][Next]_vars

(***************************************************************************)
(* Two runs over one directory.                                            *)
(***************************************************************************)
RECURSIVE SumDirectives(_)
SumDirectives(ts) ==
    IF ts = <<>> THEN 0 ELSE Len(MatchesOf(Head(ts))) + SumDirectives(Tail(ts))

\* a directory with its texts, of MaxEdges directives at most
InitDir ==
    /\ processStart
    /\ listing \in {SelectSeq(d, isValidFile) : d \in DirListings}
    /\ dir \in [1..Len(listing) -> DirTexts]
    /\ SumDirectives(dir) <= MaxEdges
    /\ unreadable \in someUnreadable
    /\ run = 1
    /\ firstOut = <<>>

\* the run has ended and the program is started again, in a new process,
\* on the same directory: the module is loaded again (cyclesDetected = False,
\* Node.nodes = [], Node.nodeStack = [], Node.indexCount = 0)
FreshProcess ==
    /\ run = 1
    /\ pc \in {"done", "raised", "IOError"}
    /\ pc' = "constructGraph"
    /\ fileIdx' = 1
    /\ text' = <<>>
    /\ nodes' = <<>>
    /\ nodeStack' = <<>>
    /\ indexCount' = 0
    /\ cyclesDetected' = FALSE
    /\ rootIdx' = 1
    /\ callStack' = <<>>
    /\ stdout' = <<>>
    /\ handles' = {}
    /\ run' = 2
    /\ firstOut' = stdout
    /\ UNCHANGED directory

\* main has returned and is called again in the same process, on the same
\* directory: the module is not loaded again, so cyclesDetected and the
\* attributes of class Node are what the first call left; the loops of
\* constructGraph and of main start again
MainAgain ==
    /\ run = 1
    /\ pc = "done"
    /\ pc' = "constructGraph"
    /\ fileIdx' = 1
    /\ text' = <<>>
    /\ rootIdx' = 1
    /\ callStack' = <<>>
    /\ stdout' = <<>>
    /\ run' = 2
    /\ firstOut' = stdout
    /\ UNCHANGED <<nodes, nodeStack, indexCount, cyclesDetected, handles, directory>>

\* the steps of a run over a directory whose texts are fixed
NextDir ==
    \/ ScanDirFile
    \/ ReadFails
    \/ ConstructGraphReturn
    \/ MainCallTarjan
    \/ TarjanRecurse
    \/ TarjanBackEdge
    \/ TarjanSkip
    \/ TarjanReturn
    \/ MainFinish

NextFresh == NextDir \/ FreshProcess

\* two runs over one directory, each in its own process
SpecFresh == InitDir /\ [][NextFresh]_vars

NextAgain == NextDir \/ MainAgain

\* two runs over one directory in one process
SpecAgain == InitDir /\ [][NextAgain]_vars

\* the program is one thread that runs until it returns or raises: a step
\* that can be taken is taken
FairSpec == Spec /\ WF_vars(Next)

\* the same runs, with the text of the file scanned last kept in the state
NextText ==
    \/ ScanFileText
    \/ ReadFails
    \/ ConstructGraphReturn
    \/ MainCallTarjan
    \/ TarjanRecurse
    \/ TarjanBackEdge
    \/ TarjanSkip
    \/ TarjanReturn
    \/ MainFinish

SpecText == Init /\ [][NextText]_vars

(***************************************************************************)
(* The include graph and the output, as the properties read them.          *)
(***************************************************************************)
NodeIds == 1..Len(nodes)

\* the headers node k includes directly
Succ(k) == Range(nodes[k].links)

\* the nodes an include chain leads to from a node of S, S included
RECURSIVE ReachSet(_)
ReachSet(S) ==
    LET T == S \cup UNION {Succ(k) : k \in S}
    IN  IF T = S THEN S ELSE ReachSet(T)

\* the strongly connected component of node k
SCCof(k) == {j \in ReachSet({k}) : k \in ReachSet({j})}

SCCs == {SCCof(k) : k \in NodeIds}

\* the components of two or more nodes
CyclicSCCs == {C \in SCCs : Cardinality(C) >= 2}

SelfLoops == {k \in NodeIds : k \in Succ(k)}

\* no include chain leads from a header back to itself
Acyclic == CyclicSCCs = {} /\ SelfLoops = {}

NamesOf(C) == {nodes[k].name : k \in C}

\* the graph is complete: constructGraph has returned
GraphBuilt == pc \in {"main_loop", "tarjan", "done"}

\* the items of a printed line that " <- " separates
RECURSIVE SplitArrow(_)
SplitArrow(line) ==
    LET p == Find(line, 1, Arrow \o <<" ">>)
    IN  IF p = 0
        THEN <<line>>
        ELSE <<SubSeq(line, 1, p - 1)>> \o SplitArrow(SubSeq(line, p + 4, Len(line)))

\* a line in the chain format n1 <- n2 <- ... <- n1 over the names of nodes
IsChain(line) ==
    LET items == SplitArrow(line)
    IN  /\ Len(items) >= 2
        /\ \A i \in 1..Len(items) : items[i] \in NamesOf(NodeIds)
        /\ items[Len(items)] = items[1]

\* the printed lines that are neither the header of a cycle nor the summary
ChainLines == SelectSeq(stdout, LAMBDA l : l # CycleHeader /\ l # NoCycles)

\* the names a chain line lists before its closing name
ChainMembers(line) ==
    LET items == SplitArrow(line)
    IN  SubSeq(items, 1, Len(items) - 1)

Count(x, seq) == Cardinality({i \in 1..Len(seq) : seq[i] = x})

(***************************************************************************)
(* C1.  When main has called tarjan on every node of Node.nodes, the node  *)
(* sets printed as cycles are exactly the strongly connected components    *)
(* of two or more nodes: each is printed once, with exactly its members,   *)
(* and nothing else is printed as a cycle.                                 *)
(***************************************************************************)
C1_PrintedAreCyclicSCCs ==
    pc = "done" =>
        /\ \A i \in 1..Len(ChainLines) :
              LET m == ChainMembers(ChainLines[i])
              IN  /\ Range(m) \in {NamesOf(C) : C \in CyclicSCCs}
                  /\ \A n \in Range(m) : Count(n, m) = 1
        /\ \A C \in CyclicSCCs :
              Cardinality({i \in 1..Len(ChainLines) :
                              Range(ChainMembers(ChainLines[i])) = NamesOf(C)}) = 1

\* a run ends on a graph with a component of two nodes and a node outside it
C1_Witness ==
    /\ pc = "done"
    /\ \E C \in CyclicSCCs : Cardinality(C) = 2
    /\ Len(nodes) = 3
    /\ Len(ChainLines) = 1

(***************************************************************************)
(* C2.  When the include graph holds exactly one cycle, of k >= 2 headers, *)
(* the run reports exactly one chain: the k headers of the cycle, each     *)
(* once, then the first of them again.  The directory is listed in any     *)
(* order.                                                                  *)
(***************************************************************************)
\* the graph has one cycle, through the nodes of C
OnlyCycle(C) ==
    /\ CyclicSCCs = {C}
    /\ SelfLoops = {}
    /\ \A k \in C : Cardinality(Succ(k) \cap C) = 1

C2_OneCycleOneChain ==
    \A C \in SCCs :
        (pc = "done" /\ OnlyCycle(C)) =>
            /\ Len(ChainLines) = 1
            /\ LET items == SplitArrow(ChainLines[1])
                   k == Cardinality(C)
               IN  /\ Len(items) = k + 1
                   /\ Range(SubSeq(items, 1, k)) = NamesOf(C)
                   /\ items[k + 1] = items[1]

\* a run ends on a graph whose only cycle has three headers
C2_Witness ==
    /\ pc = "done"
    /\ \E C \in SCCs : OnlyCycle(C) /\ Cardinality(C) = 3

(***************************************************************************)
(* C3.  A header that includes itself, and is a strongly connected         *)
(* component by itself, is reported as a cycle.                            *)
(***************************************************************************)
C3_SelfLoopReported ==
    pc = "done" =>
        \A k \in SelfLoops :
            SCCof(k) = {k} =>
                \E i \in 1..Len(ChainLines) :
                    nodes[k].name \in Range(SplitArrow(ChainLines[i]))

(***************************************************************************)
(* C4.  When the include graph has no cyclic include chain, no cycle is    *)
(* printed at any point of the run, whatever the order of Node.nodes and   *)
(* of the links.                                                           *)
(***************************************************************************)
C4_AcyclicPrintsNoCycle ==
    (GraphBuilt /\ Acyclic) =>
        /\ ~cyclesDetected
        /\ \A i \in 1..Len(stdout) : stdout[i] = NoCycles

\* a run ends on an acyclic graph of three headers and three edges or more
C4_Witness ==
    /\ pc = "done"
    /\ Acyclic
    /\ Len(nodes) = 3
    /\ SumLinks(nodes) >= 3

(***************************************************************************)
(* C5.  Every printed chain is an inclusion chain read right to left: for  *)
(* each adjacent pair x <- y, header y includes header x directly, and     *)
(* the line ends with its first name.                                      *)
(***************************************************************************)
C5_ChainIsInclusionChain ==
    \A i \in 1..Len(ChainLines) :
        LET items == SplitArrow(ChainLines[i])
        IN  /\ items[Len(items)] = items[1]
            /\ \A j \in 1..(Len(items) - 1) :
                  inNodes(nodes, items[j]) \in Succ(inNodes(nodes, items[j + 1]))

(***************************************************************************)
(* C6.  An include directive inside a block comment, or after // on its    *)
(* line, never produces a graph edge, wherever the comment stands in the   *)
(* text: the first line, the middle, or the last line.                     *)
(***************************************************************************)
\* the text outside the comments, as C reads them: a block comment runs
\* from "/*" to the next "*/", a line comment from "//" to the end of its
\* line or of the text
RECURSIVE OutsideComments(_, _)
OutsideComments(s, pos) ==
    IF pos > Len(s)
    THEN <<>>
    ELSE IF StartsWithAt(s, pos, <<"/", "*">>)
    THEN LET close == Find(s, pos + 2, <<"*", "/">>)
         IN  IF close = 0 THEN <<>> ELSE OutsideComments(s, close + 2)
    ELSE IF StartsWithAt(s, pos, <<"/", "/">>)
    THEN LET nl == Find(s, pos + 2, <<"\n">>)
         IN  IF nl = 0 THEN <<>> ELSE OutsideComments(s, nl)
    ELSE <<s[pos]>> \o OutsideComments(s, pos + 1)

\* the filenames of the directives that stand outside the comments of t
NamesOutsideComments(t) ==
    LET ms == [i \in 1..Len(findallIncludes(OutsideComments(t, 1))) |->
                  searchFilename(findallIncludes(OutsideComments(t, 1))[i])]
    IN  [i \in 1..Len(SelectSeq(ms, LAMBDA m : m.matched)) |->
            SelectSeq(ms, LAMBDA m : m.matched)[i].group]

\* a pass of constructGraph's loop has just read text
Scanned ==
    \/ pc = "constructGraph" /\ fileIdx > 1
    \/ pc = "raised" /\ fileIdx <= Len(listing)

\* the file of that pass
ScannedFile == IF pc = "raised" THEN listing[fileIdx] ELSE listing[fileIdx - 1]

\* the names of the edges that pass gave the file's node
Produced ==
    LET links == nodes[inNodes(nodes, ScannedFile)].links
    IN  [i \in 1..Len(links) |-> nodes[links[i]].name]

C6_CommentedNeverEdge ==
    Scanned =>
        \A n \in Names : Count(n, Produced) <= Count(n, NamesOutsideComments(text))

(***************************************************************************)
(* C7.  A double-quoted include directive in which no filename token is    *)
(* found adds no edge and raises no error: graph construction goes on      *)
(* with the remaining directives and files.                                *)
(***************************************************************************)
\* the filenames of the directives of t in which a token is found
TokenNames(t) ==
    LET found == SelectSeq(matchesOf(t), LAMBDA m : m.matched)
    IN  [i \in 1..Len(found) |-> found[i].group]

HasNoTokenDirective(t) == \E i \in 1..Len(matchesOf(t)) : ~matchesOf(t)[i].matched

C7_NoTokenIsSilent ==
    (Scanned /\ HasNoTokenDirective(text)) =>
        /\ pc # "raised"
        /\ Produced = TokenNames(text)

(***************************************************************************)
(* C8.  An include directive that names a file absent from the scanned     *)
(* directory still creates a node of Node.nodes; that node has no          *)
(* outgoing links, and it is never a member of a reported cycle.           *)
(***************************************************************************)
\* the nodes whose file is not in the directory
AbsentNodes == {k \in NodeIds : nodes[k].name \notin Range(listing)}

C8_AbsentNodeIsLeaf ==
    /\ \A k \in NodeIds : \A i \in 1..Len(nodes[k].links) : nodes[k].links[i] \in NodeIds
    /\ \A k \in AbsentNodes :
          /\ nodes[k].links = <<>>
          /\ \A i \in 1..Len(ChainLines) :
                nodes[k].name \notin Range(SplitArrow(ChainLines[i]))

\* a run ends after printing a cycle, on a graph in which a header of the
\* cycle includes an absent file
C8_Witness ==
    /\ pc = "done"
    /\ cyclesDetected
    /\ \E k \in AbsentNodes : \E j \in NodeIds : k \in Succ(j) /\ SCCof(j) # {j}

(***************************************************************************)
(* C9.  At the end of main the line "No cyclic dependencies detected." is  *)
(* printed if and only if no cycle chain was printed in the run; it is     *)
(* printed at most once, and only after every node has been processed.     *)
(***************************************************************************)
C9_SummaryIffNoChain ==
    /\ pc = "done" => (Count(NoCycles, stdout) = 1 <=> ChainLines = <<>>)
    /\ Count(NoCycles, stdout) <= 1
    /\ Count(NoCycles, stdout) = 1 =>
          /\ pc = "done"
          /\ rootIdx > Len(nodes)
          /\ \A k \in NodeIds : nodes[k].index # -1

\* a run over three headers linked without a cycle ends with the summary
C9_Witness ==
    /\ pc = "done"
    /\ stdout = <<NoCycles>>
    /\ Len(nodes) = 3
    /\ SumLinks(nodes) >= 2

(***************************************************************************)
(* C10.  As claimed: the output of a run that detects cycles is exactly    *)
(* one line per detected cycle, each in the chain format.                  *)
(***************************************************************************)
C10_OneLinePerCycle ==
    (pc = "done" /\ cyclesDetected) =>
        /\ Len(stdout) = Cardinality(CyclicSCCs)
        /\ \A i \in 1..Len(stdout) : IsChain(stdout[i])

(***************************************************************************)
(* C10, amended.  The output of a run that detects cycles is exactly two   *)
(* lines per detected cycle: the line "Cyclic dependency detected:" and    *)
(* then one line in the chain format.                                      *)
(***************************************************************************)
C10_TwoLinesPerCycle ==
    (pc = "done" /\ cyclesDetected) =>
        /\ Len(stdout) = 2 * Cardinality(CyclicSCCs)
        /\ \A i \in 1..Len(stdout) :
              IF i % 2 = 1
              THEN stdout[i] = CycleHeader
              ELSE IsChain(stdout[i]) /\ Len(SplitArrow(stdout[i])) >= 3

\* a run ends after printing the cycle of a component of three headers
C10_Witness ==
    /\ pc = "done"
    /\ cyclesDetected
    /\ \E C \in CyclicSCCs : Cardinality(C) = 3

(***************************************************************************)
(* C11.  Two runs over the same unchanged directory, listed in the same    *)
(* order, print the same lines in the same order.                          *)
(***************************************************************************)
\* the second run has printed so far what the first run printed first
PrefixOfFirst ==
    /\ Len(stdout) <= Len(firstOut)
    /\ \A i \in 1..Len(stdout) : stdout[i] = firstOut[i]

C12_ReadFailureIsFatal ==
    /\ \A i \in unreadable : fileIdx <= i
    /\ unreadable # {} =>
          /\ pc \in {"constructGraph", "raised", "IOError"}
          /\ indexCount = 0
          /\ callStack = <<>>
          /\ stdout = <<>>
    /\ pc = "IOError" => (fileIdx \in unreadable /\ ~ENABLED Next)

\* the run has ended at an unreadable file, after it built a cycle of two
\* headers
C12_Witness ==
    /\ pc = "IOError"
    /\ CyclicSCCs # {}

(***************************************************************************)
(* C13.  The loop of main starts a depth-first search from a node only if  *)
(* the node is still unvisited (index -1), so every node is assigned an    *)
(* index and pushed on the stack exactly once in the run.                  *)
(***************************************************************************)
\* a step that enters tarjan(k): from main's loop or by recursion
Enters(k) ==
    /\ Len(callStack') = Len(callStack) + 1
    /\ callStack'[Len(callStack')].n = k

C13_RootsAreUnvisited ==
    [][\A k \in NodeIds : Enters(k) => nodes[k].index = -1]_vars

(***************************************************************************)
(* C14.  After any sequence of file scans and addLink calls, no two nodes  *)
(* of Node.nodes have the same name, every element of every links list is  *)
(* a node of Node.nodes, and the directives that name one file, in         *)
(* whatever header, link to one and the same node.                         *)
(***************************************************************************)
C14_NodeIdentityByName ==
    /\ \A i, j \in NodeIds : nodes[i].name = nodes[j].name => i = j
    /\ \A k \in NodeIds : Succ(k) \subseteq NodeIds
    /\ \A n \in Names :
          Cardinality({t \in UNION {Succ(k) : k \in NodeIds} : nodes[t].name = n}) <= 1

\* two different headers include one file, and one of the two includes it
\* twice
C14_Witness ==
    \E i, j \in NodeIds :
        /\ i # j
        /\ Succ(i) \cap Succ(j) # {}
        /\ Len(nodes[i].links) > Cardinality(Succ(i))

(***************************************************************************)
(* C15.  Graph and algorithm state do not persist across runs: a second    *)
(* run of the analysis in the same process starts from an empty node       *)
(* registry, an empty stack, unset indices and a cleared cyclesDetected,   *)
(* and so reports the same cycles as a run in a fresh process.             *)
(***************************************************************************)
C15_NoStateAcrossRuns ==
    /\ (run = 2 /\ pc = "constructGraph" /\ fileIdx = 1) =>
          /\ nodes = <<>>
          /\ nodeStack = <<>>
          /\ ~cyclesDetected
    /\ (run = 2 /\ pc = "done") => stdout = firstOut

(***************************************************************************)
(* C16.  Each header file opened during constructGraph is closed after     *)
(* its text is read and before the next file is opened, whether the read   *)
(* succeeded or failed: two file objects are never open together, and      *)
(* none is open when the SCC analysis begins.                              *)
(***************************************************************************)
\* a step of constructGraph's loop that opens the file at fileIdx
Opens ==
    /\ pc = "constructGraph"
    /\ fileIdx <= Len(listing)
    /\ handles' = {listing[fileIdx]}

C16_FilesClosedAfterRead ==
    [][/\ Opens => handles = {}
       /\ Cardinality(handles') <= 1
       /\ pc' \in {"main_loop", "tarjan", "done"} => handles' = {}]_vars

(***************************************************************************)
(* C17.  Whenever a call of tarjan made by main's loop returns,            *)
(* Node.nodeStack is empty, and the pop loop at the root of a component    *)
(* never pops from an empty stack: the node of every active call of        *)
(* tarjan is on the stack.                                                 *)
(***************************************************************************)
C17_StackEmptyAtReturn ==
    /\ pc \in {"main_loop", "done"} => nodeStack = <<>>
    /\ pc = "raised" => (callStack = <<>> /\ indexCount = 0)
    /\ pc = "tarjan" =>
          \A i \in 1..Len(callStack) : callStack[i].n \in Range(nodeStack)

\* the first call of tarjan made by main has returned, after it entered
\* three nodes and printed a cycle
C17_Witness ==
    /\ pc = "main_loop"
    /\ rootIdx = 2
    /\ indexCount = 3
    /\ cyclesDetected

(***************************************************************************)
(* C19.  At every point of the SCC computation Node.indexCount never       *)
(* decreases, no node is twice in Node.nodeStack, the indices of the       *)
(* nodes of the stack increase strictly from bottom to top, and every      *)
(* node of the stack has an index other than -1 and a lowlink that is at   *)
(* most its index and is the index of a node of the stack.                 *)
(***************************************************************************)
StackInv ==
    /\ \A i, j \in 1..Len(nodeStack) :
          i < j => /\ nodeStack[i] # nodeStack[j]
                   /\ nodes[nodeStack[i]].index < nodes[nodeStack[j]].index
    /\ \A i \in 1..Len(nodeStack) :
          LET n == nodes[nodeStack[i]]
          IN  /\ n.index # -1
              /\ n.lowlink <= n.index
              /\ \E j \in 1..Len(nodeStack) : nodes[nodeStack[j]].index = n.lowlink

C19_StackAndIndexInvariant ==
    [][indexCount' >= indexCount /\ StackInv /\ StackInv']_vars

\* three nodes are on the stack, and the lowlink of the top one is the
\* index of the bottom one
C19_Witness ==
    /\ Len(nodeStack) = 3
    /\ nodes[nodeStack[3]].lowlink = nodes[nodeStack[1]].index

(***************************************************************************)
(* C18.  For every finite graph, with cycles, self-loops and duplicate     *)
(* edges, the run terminates: tarjan is entered at most twice per node     *)
(* (once by recursion, while the index is -1, and once from main's loop),  *)
(* and every loop ends.                                                    *)
(***************************************************************************)
\* main has returned, or an exception has ended the run
Terminated == pc \in {"done", "raised", "IOError"}

C18_RunTerminates ==
    /\ <>Terminated
    /\ [](indexCount <= 2 * Len(nodes))

\* a run has ended on a graph with a cycle, a self-loop and a duplicate edge
C18_Witness ==
    /\ pc = "done"
    /\ CyclicSCCs # {}
    /\ SelfLoops # {}
    /\ \E k \in NodeIds : Len(nodes[k].links) > Cardinality(Succ(k))

=============================================================================
